---------------------------- MODULE Spec2Model ----------------------------
(***************************************************************************)
(* A model of package urlshort (src/handler.go).                           *)
(*                                                                         *)
(* MapHandler(pathsToUrls, fallback) returns a closure over the map it is  *)
(* given and over the fallback handler.  YAMLHandler(yamlBytes, fallback)  *)
(* decodes a YAML sequence of path/url records into a slice of             *)
(* pathURLPair, inserts the pairs into a fresh map in slice order, and     *)
(* returns MapHandler of that map.                                         *)
(*                                                                         *)
(* Two specifications are given.  Spec is the life of one handler: its     *)
(* construction by MapHandler or, step by step, by YAMLHandler, the        *)
(* requests it then serves, and what the caller of MapHandler can do with  *)
(* the map it still holds.  SpecServe starts from a constructed handler    *)
(* and runs the closure's two steps (read the path, look it up and         *)
(* answer) for several requests at once, in any interleaving.              *)
(*                                                                         *)
(* What the handler does to a request is recorded as the list of calls it  *)
(* makes on the request's response writer: http.Redirect(w, r, url, code)  *)
(* or fallback.ServeHTTP(w, r).  net/http and yaml.v2 are libraries        *)
(* outside the package; the model stops at the calls made into them,       *)
(* except for yaml.Unmarshal, whose decoding of a document into            *)
(* []pathURLPair is modelled by what yaml.v2 does for that target type.    *)
(***************************************************************************)
EXTENDS Naturals, Sequences, FiniteSets, TLC

(***************************************************************************)
(* Bounds of the model.                                                    *)
(***************************************************************************)
\* The longest document, in records.
MaxLen == 3

\* The number of response writers, which is the number of requests that can
\* be in flight at once.
NumReq == 2

(***************************************************************************)
(* Values.  A path is a sequence of characters, so that one path can be a  *)
(* proper prefix of another; the zero string is the empty sequence.        *)
(***************************************************************************)
Paths == {<<"a">>, <<"a", "b">>}

Urls == {"u1", "u2"}

Queries == {"", "q"}

Hosts == {"h1", "h2"}

Fallbacks == {"F1", "F2"}

Writers == 1..NumReq

\* http.StatusFound, the code MapHandler passes to http.Redirect.
StatusFound == 302

\* An *http.Request, as far as the handler can see it: r.URL.Path,
\* r.URL.RawQuery and r.Host.
Requests == [Path : Paths, RawQuery : Queries, Host : Hosts]

\* The maps a caller passes to MapHandler.
MapSet == UNION {[D -> Urls] : D \in SUBSET Paths}

EmptyMap == <<>>

(***************************************************************************)
(* Documents.  A document is either not decodable as YAML at all (or not a *)
(* sequence at its top level), or a sequence of records.  A record's path  *)
(* is a string or a value that is no scalar (a nested sequence or mapping  *)
(* where a string is expected); its url is one of these or is absent.      *)
(***************************************************************************)
PathFields ==
    {[kind |-> "str", val |-> p] : p \in Paths} \cup {[kind |-> "bad", val |-> <<>>]}

UrlFields ==
    {[kind |-> "str", val |-> u] : u \in Urls}
        \cup {[kind |-> "absent", val |-> ""], [kind |-> "bad", val |-> ""]}

Records == [path : PathFields, url : UrlFields]

SeqUpTo(S, n) == UNION {[1..k -> S] : k \in 0..n}

Docs ==
    {[valid |-> FALSE, items |-> <<>>]}
        \cup {[valid |-> TRUE, items |-> s] : s \in SeqUpTo(Records, MaxLen)}

(***************************************************************************)
(* The calls a handler makes.                                              *)
(***************************************************************************)
\* http.Redirect(w, r, url, code)
Redirect(w, r, url, code) ==
    [fn |-> "Redirect", h |-> "http", w |-> w, r |-> r, url |-> url, code |-> code]

\* h.ServeHTTP(w, r)
ServeHTTPCall(h, w, r) ==
    [fn |-> "ServeHTTP", h |-> h, w |-> w, r |-> r, url |-> "", code |-> 0]


(***************************************************************************)
(* The closure MapHandler returns.                                         *)
(***************************************************************************)
\* A lookup that also matches a key that is a prefix of the path.
HasPrefixKey(m, path) ==
    \E k \in DOMAIN m : Len(k) <= Len(path) /\ SubSeq(path, 1, Len(k)) = k

\* The comma-ok lookup's second result: pathsToUrls[path] has an entry.
keyFound(m, path) == path \in DOMAIN m

DispatchMoved(m, F, path, w, r) ==
    IF keyFound(m, path)
    THEN <<Redirect(w, r, m[path], 301)>>
    ELSE <<ServeHTTPCall(F, w, r)>>

DispatchPathOnly(m, F, path, w, r) ==
    IF keyFound(m, path)
    THEN <<Redirect(w, r, m[path], StatusFound)>>
    ELSE <<ServeHTTPCall(F, w, [r EXCEPT !.RawQuery = "", !.Host = "h1"])>>

DispatchPrefix(m, F, path, w, r) ==
    IF HasPrefixKey(m, path)
    THEN <<Redirect(w, r,
                    m[CHOOSE k \in DOMAIN m :
                        Len(k) <= Len(path) /\ SubSeq(path, 1, Len(k)) = k],
                    StatusFound)>>
    ELSE <<ServeHTTPCall(F, w, r)>>

\* The body of the closure from the lookup on: one call on w, a redirect to
\* the mapped url when the path is a key and the fallback otherwise.
Dispatch(m, F, path, w, r) ==
    IF keyFound(m, path)
    THEN <<Redirect(w, r, m[path], StatusFound)>>
    ELSE <<ServeHTTPCall(F, w, r)>>

\* The whole closure: path := r.URL.Path, then the lookup and the answer.
HandlerFunc(m, F, w, r) == Dispatch(m, F, r.Path, w, r)

(***************************************************************************)
(* YAMLHandler's pieces.                                                   *)
(***************************************************************************)
\* A field as yaml.v2 leaves it in the struct: the string when the document
\* gives one, and the zero value when the field is absent or when its value
\* cannot be decoded into a string.
DecodeField(f, zero) == IF f.kind = "str" THEN f.val ELSE zero

DecodePair(rec) ==
    [Path |-> DecodeField(rec.path, <<>>), URL |-> DecodeField(rec.url, "")]

HasBadField(rec) == rec.path.kind = "bad" \/ rec.url.kind = "bad"

\* A decoder that finds no field tagged `path`.
UnmarshalNoPathTag(d) ==
    IF ~d.valid
    THEN [err |-> "syntax", pairs |-> <<>>]
    ELSE [err |-> IF \E i \in 1..Len(d.items) : d.items[i].url.kind = "bad"
                  THEN "type" ELSE "nil",
          pairs |-> [i \in 1..Len(d.items) |->
                        [Path |-> <<>>, URL |-> DecodeField(d.items[i].url, "")]]]

\* A decoder that refuses a record without a url.
UnmarshalRequireURL(d) ==
    IF ~d.valid
    THEN [err |-> "syntax", pairs |-> <<>>]
    ELSE [err |-> IF \E i \in 1..Len(d.items) :
                        HasBadField(d.items[i]) \/ d.items[i].url.kind = "absent"
                  THEN "type" ELSE "nil",
          pairs |-> [i \in 1..Len(d.items) |-> DecodePair(d.items[i])]]

\* yaml.Unmarshal(yamlBytes, &pairs) for pairs []pathURLPair.  A document
\* that is no YAML, or no sequence, gives an error and leaves pairs nil.  A
\* field of the wrong type is reported in the error (a *yaml.TypeError)
\* after the rest has been decoded: pairs then holds every record, with the
\* undecodable fields left at their zero value.  A field that is absent is
\* no error and is left at its zero value.
Unmarshal(d) ==
    IF ~d.valid
    THEN [err |-> "syntax", pairs |-> <<>>]
    ELSE [err |-> IF \E i \in 1..Len(d.items) : HasBadField(d.items[i])
                  THEN "type" ELSE "nil",
          pairs |-> [i \in 1..Len(d.items) |-> DecodePair(d.items[i])]]

ErrCheckSyntaxOnly(e) == e = "syntax"

\* if err != nil
ErrCheck(e) == e # "nil"

InsertPairFirstWins(m, pair) ==
    IF pair.Path \in DOMAIN m
    THEN m
    ELSE [k \in DOMAIN m \cup {pair.Path} |->
             IF k = pair.Path THEN pair.URL ELSE m[k]]

InsertPairClear(m, pair) == [k \in {pair.Path} |-> pair.URL]

\* pathsToUrls[pair.Path] = pair.URL
InsertPair(m, pair) ==
    [k \in DOMAIN m \cup {pair.Path} |-> IF k = pair.Path THEN pair.URL ELSE m[k]]

(***************************************************************************)
(* State.                                                                  *)
(***************************************************************************)
VARIABLES
    pc,             \* where the construction of the handler stands
    yamlBytes,      \* YAMLHandler's document
    pairs,          \* YAMLHandler's slice of decoded pairs
    idx,            \* the number of pairs the range loop has gone through
    pathsToUrls,    \* the map the closure reads
    fallback,       \* the fallback the closure calls
    ret,            \* what the constructor returned: the handler and the error
    callerHoldsMap, \* the caller of MapHandler still holds the closure's map
    built,          \* the map's value when the constructor returned
    resp,           \* the last request answered: its writer, request, calls
    fallbackUsed,   \* fallback.ServeHTTP has been called
    inflight        \* per writer, the request being served and its local path

vars ==
    <<pc, yamlBytes, pairs, idx, pathsToUrls, fallback, ret, callerHoldsMap,
      built, resp, fallbackUsed, inflight>>

ctorVars == <<pc, yamlBytes, pairs, idx, fallback, ret, callerHoldsMap, built>>

ZeroReq == [Path |-> <<>>, RawQuery |-> "", Host |-> ""]

NoResp == [w |-> 0, r |-> ZeroReq, calls |-> <<>>]

Idle == [busy |-> FALSE, r |-> ZeroReq, path |-> <<>>]

NoDoc == [valid |-> TRUE, items |-> <<>>]

NoRet == [handler |-> "nil", err |-> "nil"]

CallsFallback(calls) == \E j \in 1..Len(calls) : calls[j].fn = "ServeHTTP"

Init ==
    /\ pc = "idle"
    /\ yamlBytes = NoDoc
    /\ pairs = <<>>
    /\ idx = 0
    /\ pathsToUrls = EmptyMap
    /\ fallback = "F1"
    /\ ret = NoRet
    /\ callerHoldsMap = FALSE
    /\ built = EmptyMap
    /\ resp = NoResp
    /\ fallbackUsed = FALSE
    /\ inflight = [w \in Writers |-> Idle]

(***************************************************************************)
(* Construction.                                                           *)
(***************************************************************************)
\* MapHandler(m, F), called by the program itself: the closure captures the
\* caller's map (a Go map is a reference) and the fallback.
MapHandler ==
    /\ pc = "idle"
    /\ \E m \in MapSet, F \in Fallbacks :
          /\ pathsToUrls' = m
          /\ built' = m
          /\ fallback' = F
    /\ ret' = [handler |-> "func", err |-> "nil"]
    /\ callerHoldsMap' = TRUE
    /\ pc' = "serving"
    /\ UNCHANGED <<yamlBytes, pairs, idx, resp, fallbackUsed, inflight>>

\* YAMLHandler(d, F) is entered.
YAMLHandler ==
    /\ pc = "idle"
    /\ \E d \in Docs, F \in Fallbacks :
          /\ yamlBytes' = d
          /\ fallback' = F
    /\ pc' = "unmarshal"
    /\ UNCHANGED <<pairs, idx, pathsToUrls, ret, callerHoldsMap, built, resp,
                   fallbackUsed, inflight>>

\* err := yaml.Unmarshal(yamlBytes, &pairs); on an error return nil, err;
\* otherwise make the map and enter the loop.
YAMLUnmarshal ==
    /\ pc = "unmarshal"
    /\ LET u == Unmarshal(yamlBytes) IN
          /\ pairs' = u.pairs
          /\ IF ErrCheck(u.err)
             THEN /\ ret' = [handler |-> "nil", err |-> u.err]
                  /\ pc' = "failed"
                  /\ UNCHANGED pathsToUrls
             ELSE /\ pathsToUrls' = EmptyMap
                  /\ pc' = "loop"
                  /\ UNCHANGED ret
    /\ idx' = 0
    /\ UNCHANGED <<yamlBytes, fallback, callerHoldsMap, built, resp,
                   fallbackUsed, inflight>>

\* One turn of for _, pair := range pairs.
YAMLInsert ==
    /\ pc = "loop"
    /\ idx < Len(pairs)
    /\ pathsToUrls' = InsertPair(pathsToUrls, pairs[idx + 1])
    /\ idx' = idx + 1
    /\ UNCHANGED <<pc, yamlBytes, pairs, fallback, ret, callerHoldsMap, built,
                   resp, fallbackUsed, inflight>>

\* return MapHandler(pathsToUrls, fallback), nil: the map is a local of
\* YAMLHandler, so nothing but the closure holds it.
YAMLReturn ==
    /\ pc = "loop"
    /\ idx = Len(pairs)
    /\ built' = pathsToUrls
    /\ ret' = [handler |-> "func", err |-> "nil"]
    /\ callerHoldsMap' = FALSE
    /\ pc' = "serving"
    /\ UNCHANGED <<yamlBytes, pairs, idx, pathsToUrls, fallback, resp,
                   fallbackUsed, inflight>>

(***************************************************************************)
(* The caller of MapHandler and the map it passed.  The writes are taken   *)
(* between requests: a write that overlaps a lookup is a data race.        *)
(***************************************************************************)
\* m[k] = v, on the map the closure captured.
CallerSet ==
    /\ pc = "serving"
    /\ callerHoldsMap
    /\ \E k \in Paths, v \in Urls :
          pathsToUrls' = InsertPair(pathsToUrls, [Path |-> k, URL |-> v])
    /\ UNCHANGED <<ctorVars, resp, fallbackUsed, inflight>>

\* delete(m, k), on the map the closure captured.
CallerDelete ==
    /\ pc = "serving"
    /\ callerHoldsMap
    /\ \E k \in DOMAIN pathsToUrls :
          pathsToUrls' = [x \in DOMAIN pathsToUrls \ {k} |-> pathsToUrls[x]]
    /\ UNCHANGED <<ctorVars, resp, fallbackUsed, inflight>>

(***************************************************************************)
(* Serving.                                                                *)
(***************************************************************************)
\* One call of the returned handler, from entry to return.
ServeHTTP ==
    /\ pc = "serving"
    /\ ret.handler = "func"
    /\ \E w \in Writers, r \in Requests :
          LET calls == HandlerFunc(pathsToUrls, fallback, w, r) IN
             /\ resp' = [w |-> w, r |-> r, calls |-> calls]
             /\ fallbackUsed' = (fallbackUsed \/ CallsFallback(calls))
    /\ UNCHANGED <<ctorVars, pathsToUrls, inflight>>

Next ==
    \/ MapHandler
    \/ YAMLHandler
    \/ YAMLUnmarshal
    \/ YAMLInsert
    \/ YAMLReturn
    \/ CallerSet
    \/ CallerDelete
    \/ ServeHTTP

Spec == Init /\ [][Next]_vars

(***************************************************************************)
(* Concurrent serving: the closure's steps, one request per writer.        *)
(***************************************************************************)
InitServe ==
    /\ pc = "serving"
    /\ yamlBytes = NoDoc
    /\ pairs = <<>>
    /\ idx = 0
    /\ pathsToUrls \in MapSet
    /\ fallback \in Fallbacks
    /\ ret = [handler |-> "func", err |-> "nil"]
    /\ callerHoldsMap = TRUE
    /\ built = pathsToUrls
    /\ resp = NoResp
    /\ fallbackUsed = FALSE
    /\ inflight = [w \in Writers |-> Idle]

\* The server calls the handler with (w, r); the closure reads r.URL.Path
\* into its local path.
HandlerEnter(w) ==
    /\ ~inflight[w].busy
    /\ \E r \in Requests :
          inflight' = [inflight EXCEPT ![w] = [busy |-> TRUE, r |-> r, path |-> r.Path]]
    /\ UNCHANGED <<ctorVars, pathsToUrls, resp, fallbackUsed>>

\* A closure that forgets a path once it has redirected it.
HandlerLookupOnce(w) ==
    /\ inflight[w].busy
    /\ LET calls == Dispatch(pathsToUrls, fallback, inflight[w].path, w, inflight[w].r) IN
          /\ resp' = [w |-> w, r |-> inflight[w].r, calls |-> calls]
          /\ fallbackUsed' = (fallbackUsed \/ CallsFallback(calls))
    /\ pathsToUrls' = [k \in DOMAIN pathsToUrls \ {inflight[w].path} |-> pathsToUrls[k]]
    /\ inflight' = [inflight EXCEPT ![w] = Idle]
    /\ UNCHANGED ctorVars

\* The closure looks its path up, makes its one call and returns.  It reads
\* the map and writes nothing.
HandlerLookup(w) ==
    /\ inflight[w].busy
    /\ LET calls == Dispatch(pathsToUrls, fallback, inflight[w].path, w, inflight[w].r) IN
          /\ resp' = [w |-> w, r |-> inflight[w].r, calls |-> calls]
          /\ fallbackUsed' = (fallbackUsed \/ CallsFallback(calls))
    /\ inflight' = [inflight EXCEPT ![w] = Idle]
    /\ UNCHANGED <<ctorVars, pathsToUrls>>

NextServe ==
    \E w \in Writers :
        \/ HandlerEnter(w)
        \/ HandlerLookup(w)

SpecServe == InitServe /\ [][NextServe]_vars

(***************************************************************************)
(* Vocabulary of the properties.                                           *)
(***************************************************************************)
\* A request has been answered; resp is that exchange.
Served == resp # NoResp

\* The answer was exactly one call, a redirect with the given target and code.
RedirectedTo(url, code) ==
    /\ Len(resp.calls) = 1
    /\ resp.calls[1].fn = "Redirect"
    /\ resp.calls[1].w = resp.w
    /\ resp.calls[1].r = resp.r
    /\ resp.calls[1].url = url
    /\ resp.calls[1].code = code

\* The answer was exactly one call, F.ServeHTTP(w, r) with the handler's own
\* writer and request.
DelegatedTo(F) ==
    /\ Len(resp.calls) = 1
    /\ resp.calls[1].fn = "ServeHTTP"
    /\ resp.calls[1].h = F
    /\ resp.calls[1].w = resp.w
    /\ resp.calls[1].r = resp.r

ProperPrefix(s, t) == Len(s) < Len(t) /\ SubSeq(t, 1, Len(s)) = s

\* The handler in hand was returned by YAMLHandler.
BuiltByYAML == pc = "serving" /\ ~callerHoldsMap

\* Every field of every record of d can be decoded.
WellFormedDoc(d) ==
    /\ d.valid
    /\ \A i \in 1..Len(d.items) :
          d.items[i].path.kind # "bad" /\ d.items[i].url.kind # "bad"

DocPaths(d) ==
    {d.items[i].path.val : i \in {j \in 1..Len(d.items) : d.items[j].path.kind = "str"}}

PathAt(d, i) == d.items[i].path.val

\* The url of record i: the string the record gives, the zero string when
\* the record gives none.
UrlAt(d, i) == IF d.items[i].url.kind = "str" THEN d.items[i].url.val ELSE ""

IsLast(d, i) == \A j \in (i + 1)..Len(d.items) : PathAt(d, j) # PathAt(d, i)

LastIndex(d, p) ==
    CHOOSE i \in 1..Len(d.items) : PathAt(d, i) = p /\ IsLast(d, i)

MissingUrl(d) == \E i \in 1..Len(d.items) : d.items[i].url.kind = "absent"

RECURSIVE CollapseDoc(_)
\* The map obtained by inserting the records in document order.
CollapseDoc(items) ==
    IF items = <<>>
    THEN EmptyMap
    ELSE LET n == Len(items)
             last == items[n]
             v == IF last.url.kind = "str" THEN last.url.val ELSE ""
         IN (last.path.val :> v) @@ CollapseDoc(SubSeq(items, 1, n - 1))

(***************************************************************************)
(* Properties of the closure, under SpecServe.                             *)
(***************************************************************************)
\* C1: a request whose path is a key of the map is answered by one call,
\* http.Redirect with status 302 and the mapped url as target, and the
\* fallback is not called for it.
C1_MappedPathRedirects ==
    (Served /\ resp.r.Path \in DOMAIN pathsToUrls)
        => /\ RedirectedTo(pathsToUrls[resp.r.Path], 302)
           /\ ~CallsFallback(resp.calls)

C1_Witness ==
    /\ Served
    /\ resp.r.Path \in DOMAIN pathsToUrls
    /\ resp.calls[1].fn = "Redirect"
    /\ ~fallbackUsed

\* C2: a request whose path is no key of the map is answered by exactly one
\* call, the fallback given at construction called with the handler's own
\* writer and the request as it was received; the handler makes no call of
\* its own on the writer and no redirect.
C2_UnmappedPathDelegates ==
    (Served /\ resp.r.Path \notin DOMAIN pathsToUrls)
        => /\ DelegatedTo(fallback)
           /\ \A j \in 1..Len(resp.calls) : resp.calls[j].fn # "Redirect"

C2_Witness ==
    /\ Served
    /\ resp.r.Path \notin DOMAIN pathsToUrls
    /\ pathsToUrls # EmptyMap
    /\ resp.r.RawQuery = "q"
    /\ resp.r.Host = "h2"
    /\ resp.calls[1].fn = "ServeHTTP"
    /\ resp.calls[1].r = resp.r

\* C8: serving never writes the map: whatever requests have been served and
\* however their steps interleave, the map is the one the handler was built
\* with, and every answer is the one the handler gives to that request alone.
C8_ServingNeverWritesMap ==
    /\ pathsToUrls = built
    /\ Served => resp.calls = HandlerFunc(built, fallback, resp.w, resp.r)

C8_Witness ==
    /\ Served
    /\ fallbackUsed
    /\ resp.calls[1].fn = "Redirect"
    /\ \E w \in Writers :
          /\ w # resp.w
          /\ inflight[w].busy
          /\ inflight[w].path = resp.r.Path

\* C9: the lookup is an exact match of the whole path: a request is
\* redirected exactly when its path equals a key; a path that is a proper
\* prefix or a proper extension of a key, and is no key itself, goes to the
\* fallback, whatever the request's query string and host.
C9_ExactMatchOnly ==
    Served =>
        /\ (resp.calls[1].fn = "Redirect") <=> (\E k \in DOMAIN pathsToUrls : k = resp.r.Path)
        /\ (/\ resp.r.Path \notin DOMAIN pathsToUrls
            /\ \E k \in DOMAIN pathsToUrls :
                  ProperPrefix(k, resp.r.Path) \/ ProperPrefix(resp.r.Path, k))
              => DelegatedTo(fallback)

C9_Witness ==
    /\ Served
    /\ resp.r.Path \notin DOMAIN pathsToUrls
    /\ \E k \in DOMAIN pathsToUrls : ProperPrefix(k, resp.r.Path)
    /\ resp.r.RawQuery = "q"
    /\ DelegatedTo(fallback)

(***************************************************************************)
(* Properties of YAMLHandler and of the handler's life, under Spec.        *)
(***************************************************************************)
\* C3: for a well-formed document, every path of the document is a key of
\* the returned handler's map, and a request for such a path is redirected
\* to the url the document gives it (that of its last record), never
\* delegated.
C3_DocumentPathsRedirect ==
    (BuiltByYAML /\ WellFormedDoc(yamlBytes))
        => /\ \A p \in DocPaths(yamlBytes) : p \in DOMAIN pathsToUrls
           /\ (Served /\ resp.r.Path \in DocPaths(yamlBytes))
                 => /\ RedirectedTo(UrlAt(yamlBytes, LastIndex(yamlBytes, resp.r.Path)),
                                    StatusFound)
                    /\ ~CallsFallback(resp.calls)

C3_Witness ==
    /\ BuiltByYAML
    /\ WellFormedDoc(yamlBytes)
    /\ Cardinality(DocPaths(yamlBytes)) = 2
    /\ Served
    /\ resp.r.Path \in DocPaths(yamlBytes)
    /\ resp.calls[1].fn = "Redirect"
    /\ resp.calls[1].url = "u2"

\* C4: the map YAMLHandler builds has exactly the document's paths as keys
\* and gives each the url of its last record in document order.
C4_LastOccurrenceWins ==
    (BuiltByYAML /\ WellFormedDoc(yamlBytes))
        => /\ DOMAIN pathsToUrls = DocPaths(yamlBytes)
           /\ \A i \in 1..Len(yamlBytes.items) :
                 IsLast(yamlBytes, i)
                     => /\ PathAt(yamlBytes, i) \in DOMAIN pathsToUrls
                        /\ pathsToUrls[PathAt(yamlBytes, i)] = UrlAt(yamlBytes, i)

C4_Witness ==
    /\ BuiltByYAML
    /\ Len(yamlBytes.items) = 3
    /\ PathAt(yamlBytes, 1) = PathAt(yamlBytes, 3)
    /\ PathAt(yamlBytes, 2) # PathAt(yamlBytes, 1)
    /\ UrlAt(yamlBytes, 1) = "u1"
    /\ UrlAt(yamlBytes, 3) = "u2"
    /\ pathsToUrls[PathAt(yamlBytes, 1)] = "u2"

\* C5: once YAMLHandler has got past the decoding of a document that cannot
\* be decoded, it has returned a nil handler and an error: no map was made,
\* not even of the records that were decoded, nothing was served and the
\* fallback was not called.
C5_DecodeErrorNoHandler ==
    (~WellFormedDoc(yamlBytes) /\ pc # "unmarshal")
        => /\ pc = "failed"
           /\ ret.handler = "nil"
           /\ ret.err # "nil"
           /\ pathsToUrls = EmptyMap
           /\ resp = NoResp
           /\ ~fallbackUsed

C5_Witness ==
    /\ pc = "failed"
    /\ yamlBytes.valid
    /\ Len(yamlBytes.items) = 2
    /\ yamlBytes.items[1].path.kind = "str"
    /\ yamlBytes.items[1].url.kind = "str"
    /\ yamlBytes.items[2].url.kind = "bad"
    /\ Len(pairs) = 2
    /\ pairs[1].URL = "u1"
    /\ ret.handler = "nil"
    /\ ret.err = "type"

\* C6, as stated: when YAMLHandler has returned from a document with a
\* record that lacks its url, it has failed, with an error and no handler.
C6_MissingUrlFails ==
    (yamlBytes.valid /\ MissingUrl(yamlBytes) /\ pc \in {"serving", "failed"})
        => /\ pc = "failed"
           /\ ret.handler = "nil"
           /\ ret.err # "nil"

\* C6, amended: a record that lacks its url is decoded with the zero string
\* as url.  A document that is otherwise decodable does not fail: YAMLHandler
\* returns a handler and no error, and the handler's map gives the record's
\* path the zero string unless a later record has the same path.
C6_MissingUrlIsZeroString ==
    (WellFormedDoc(yamlBytes) /\ MissingUrl(yamlBytes) /\ pc # "unmarshal")
        => /\ pc # "failed"
           /\ pc = "serving"
                 => /\ ret = [handler |-> "func", err |-> "nil"]
                    /\ \A i \in 1..Len(yamlBytes.items) :
                          (yamlBytes.items[i].url.kind = "absent" /\ IsLast(yamlBytes, i))
                              => /\ PathAt(yamlBytes, i) \in DOMAIN pathsToUrls
                                 /\ pathsToUrls[PathAt(yamlBytes, i)] = ""

C6_Witness ==
    /\ BuiltByYAML
    /\ MissingUrl(yamlBytes)
    /\ ret.handler = "func"
    /\ Served
    /\ resp.calls[1].fn = "Redirect"
    /\ resp.calls[1].url = ""

\* C7, as stated: the outcome of every request is the one the map as it was
\* at construction gives, whatever the caller did since.
C7_OutcomeFixedAtConstruction ==
    Served => resp.calls = HandlerFunc(built, fallback, resp.w, resp.r)

\* C10: the handler YAMLHandler returns for a well-formed document answers
\* every request as MapHandler of the collapsed document does, and so did it
\* answer the request it served; for the empty document that is the fallback
\* for every request.
C10_YAMLHandlerIsMapHandlerOfCollapse ==
    (BuiltByYAML /\ WellFormedDoc(yamlBytes))
        => LET m == CollapseDoc(yamlBytes.items) IN
              /\ \A w \in Writers, r \in Requests :
                    HandlerFunc(pathsToUrls, fallback, w, r) = HandlerFunc(m, fallback, w, r)
              /\ Served => resp.calls = HandlerFunc(m, fallback, resp.w, resp.r)
              /\ (yamlBytes.items = <<>> /\ Served) => DelegatedTo(fallback)

C10_Witness ==
    /\ BuiltByYAML
    /\ Len(yamlBytes.items) = 3
    /\ Cardinality(DocPaths(yamlBytes)) = 2
    /\ Served
    /\ resp.calls[1].fn = "Redirect"
    /\ resp.calls = HandlerFunc(CollapseDoc(yamlBytes.items), fallback, resp.w, resp.r)

=============================================================================
